---------------------------- MODULE Spec2Model ----------------------------
(***************************************************************************)
(* Model of template/standardize_ui.py: the per-page rewrite pipeline of   *)
(* process_file over a parsed document tree, and the main loop with its    *)
(* backup-then-write file handling.                                        *)
(*                                                                         *)
(* Text is modelled as tuples of one-character strings so that the         *)
(* substring tests, case folding, stripping and replacement the code does  *)
(* are computed, not assumed.                                              *)
(***************************************************************************)
EXTENDS Integers, Sequences, FiniteSets, TLC

VARIABLES
  \* process_file over one page
  file_name,   \* path.name
  soup,        \* the parsed document being rewritten
  pc,          \* the statement of process_file to run next
  title,       \* the local "title" (empty until find_page_title ran)
  is_top,      \* the local "is_top"
  log,         \* the rewrite rules called so far in this run, in order
  outs,        \* the document written by each completed run
  orig,        \* the document as parsed at the start of the current run
  \* main over the discovered files
  disk,        \* content at each original path
  bak,         \* content at each backup path (<path>.bak)
  idx,         \* position of the for loop in htmls
  mpc,         \* where main is within the current iteration
  report,      \* the status lines printed so far
  attempts,    \* number of process_file calls per file
  crashed      \* the process was killed

pvars == <<file_name, soup, pc, title, is_top, log, outs, orig>>
mvars == <<disk, bak, idx, mpc, report, attempts, crashed>>
vars == <<file_name, soup, pc, title, is_top, log, outs, orig,
          disk, bak, idx, mpc, report, attempts, crashed>>

(* ------------------------------ bounds -------------------------------- *)
\* longest body (number of top-level body children) of an input document
MaxBody == 2
\* how many times the pipeline is run over the same file
MaxRuns == 2
\* number of .html files main() discovers
MaxFiles == 2

(* --------------------------- string literals --------------------------- *)
s_arrow_back == <<"a","r","r","o","w","_","b","a","c","k">>
s_arrow_back_ios == <<"a","r","r","o","w","_","b","a","c","k","_","i","o","s">>
s_arrow_back_ios_new == <<"a","r","r","o","w","_","b","a","c","k","_","i","o","s","_","n","e","w">>
s_arrowback == <<"a","r","r","o","w","b","a","c","k">>
s_arrowbackiosnew == <<"a","r","r","o","w","b","a","c","k","i","o","s","n","e","w">>
s_chevron_left == <<"c","h","e","v","r","o","n","_","l","e","f","t">>
s_chevronleft == <<"c","h","e","v","r","o","n","l","e","f","t">>
s_keyboard_backspace == <<"k","e","y","b","o","a","r","d","_","b","a","c","k","s","p","a","c","e">>
s_chatbubble == <<"c","h","a","t","b","u","b","b","l","e">>
s_mail == <<"m","a","i","l">>
s_chat == <<"c","h","a","t">>
s_home == <<"h","o","m","e">>
s_Chevron_Left_sp == <<"C","h","e","v","r","o","n","_","L","e","f","t"," ">>
s_sp_Mail == <<" ","M","a","i","l">>
s_material_icons == <<"m","a","t","e","r","i","a","l","-","i","c","o","n","s">>
s_material_symbols_outlined == <<"m","a","t","e","r","i","a","l","-","s","y","m","b","o","l","s","-","o","u","t","l","i","n","e","d">>
s_material_symbols == <<"m","a","t","e","r","i","a","l","-","s","y","m","b","o","l","s">>
s_fixed == <<"f","i","x","e","d">>
s_bottom_0 == <<"b","o","t","t","o","m","-","0">>
s_bottom == <<"b","o","t","t","o","m">>
s_sticky == <<"s","t","i","c","k","y">>
s_top_0 == <<"t","o","p","-","0">>
s_menu == <<"m","e","n","u">>
s_text_primary == <<"t","e","x","t","-","p","r","i","m","a","r","y">>
s_flex == <<"f","l","e","x">>
s_App == <<"A","p","p">>
s_Back == <<"B","a","c","k">>
s_Welcome == <<"W","e","l","c","o","m","e">>
s_Foo == <<"F","o","o">>
s_blank == <<" "," ">>
s_home_html == <<"h","o","m","e",".","h","t","m","l">>
s_search_results_html == <<"s","e","a","r","c","h","_","r","e","s","u","l","t","s",".","h","t","m","l">>
s_saved_html == <<"s","a","v","e","d",".","h","t","m","l">>
s_message_threads_html == <<"m","e","s","s","a","g","e","_","t","h","r","e","a","d","s",".","h","t","m","l">>
s_profile_html == <<"p","r","o","f","i","l","e",".","h","t","m","l">>
s_map_html == <<"m","a","p",".","h","t","m","l">>
s_listing_detail_html == <<"l","i","s","t","i","n","g","_","d","e","t","a","i","l",".","h","t","m","l">>

(* --------------------------- str operations --------------------------- *)
UpperChars == <<"A","B","C","D","E","F","G","H","I","J","K","L","M",
                "N","O","P","Q","R","S","T","U","V","W","X","Y","Z">>
LowerChars == <<"a","b","c","d","e","f","g","h","i","j","k","l","m",
                "n","o","p","q","r","s","t","u","v","w","x","y","z">>

IsUpperCh(c) == \E i \in DOMAIN UpperChars : UpperChars[i] = c
IsLowerCh(c) == \E i \in DOMAIN LowerChars : LowerChars[i] = c
IsAlphaCh(c) == IsUpperCh(c) \/ IsLowerCh(c)
IsSpaceCh(c) == c \in {" ", "\n", "\t"}

LowerCh(c) ==
  IF IsUpperCh(c)
    THEN LowerChars[CHOOSE i \in DOMAIN UpperChars : UpperChars[i] = c]
    ELSE c
UpperCh(c) ==
  IF IsLowerCh(c)
    THEN UpperChars[CHOOSE i \in DOMAIN LowerChars : LowerChars[i] = c]
    ELSE c

\* str.lower()
StrLower(s) == [i \in 1..Len(s) |-> LowerCh(s[i])]

\* str.strip()
RECURSIVE LStrip(_)
LStrip(s) == IF s # <<>> /\ IsSpaceCh(Head(s)) THEN LStrip(Tail(s)) ELSE s
RECURSIVE RStrip(_)
RStrip(s) ==
  IF s # <<>> /\ IsSpaceCh(s[Len(s)]) THEN RStrip(SubSeq(s, 1, Len(s) - 1)) ELSE s
StrStrip(s) == RStrip(LStrip(s))

\* str.replace(c, r) for a one-character c
RECURSIVE StrReplace(_, _, _)
StrReplace(s, c, r) ==
  IF s = <<>> THEN <<>>
  ELSE (IF Head(s) = c THEN r ELSE <<Head(s)>>) \o StrReplace(Tail(s), c, r)

\* sub in text
StrContains(text, sub) ==
  \E i \in 0..(Len(text) - Len(sub)) : SubSeq(text, i + 1, i + Len(sub)) = sub

\* sep.join(parts)
RECURSIVE StrJoin(_, _)
StrJoin(parts, sep) ==
  IF parts = <<>> THEN <<>>
  ELSE IF Len(parts) = 1 THEN parts[1]
  ELSE parts[1] \o sep \o StrJoin(Tail(parts), sep)

\* " ".join(x) when x is a str: iterating a str yields its characters
StrJoinChars(x) == StrJoin([i \in 1..Len(x) |-> <<x[i]>>], <<" ">>)

\* str.title(): a letter is upper-cased after a non-letter, lower-cased
\* after a letter
StrTitle(s) ==
  [i \in 1..Len(s) |->
     IF i = 1 \/ ~IsAlphaCh(s[i - 1]) THEN UpperCh(s[i]) ELSE LowerCh(s[i])]

\* Path(name).stem: the name without its last suffix
PathStem(name) ==
  LET dots == {i \in 2..Len(name) : name[i] = "."}
  IN  IF dots = {} THEN name
      ELSE SubSeq(name, 1, (CHOOSE i \in dots : \A j \in dots : j <= i) - 1)

(* -------------------------- program constants -------------------------- *)
\* TOP_LEVEL: file base name -> tab identifier
TOP_LEVEL ==
  { [name |-> s_home_html,            tab |-> "home"],
    [name |-> s_search_results_html,  tab |-> "search"],
    [name |-> s_saved_html,           tab |-> "saved"],
    [name |-> s_message_threads_html, tab |-> "messages"],
    [name |-> s_profile_html,         tab |-> "profile"],
    [name |-> s_map_html,             tab |-> "map"] }

InTopLevel(name) == \E e \in TOP_LEVEL : e.name = name
TopLevelTab(name) == (CHOOSE e \in TOP_LEVEL : e.name = name).tab

BACK_ICON_NAMES ==
  { s_arrow_back, s_arrow_back_ios, s_arrow_back_ios_new, s_arrowback,
    s_arrowbackiosnew, s_chevron_left, s_chevronleft, s_keyboard_backspace }

\* the set literal of the messages-icon pass
MSG_ICON_NAMES == { s_chatbubble, s_mail }

(* ------------------------------ the tree ------------------------------- *)
\* An element: tag, class list (tokens), own text, child elements, and the
\* data-tab / aria-current attributes (used by navigation entries only).
\* Children are leaves; an element with children has no text of its own.
El(tag, class, text, kids, tab, current) ==
  [tag |-> tag, class |-> class, text |-> text, kids |-> kids,
   tab |-> tab, current |-> current]

Leaf(tag, class, text) == El(tag, class, text, <<>>, "", FALSE)

\* A head child: a title with its text, or a resource declaration / style
\* identified by key.
HeadItem(tag, key, text) == [tag |-> tag, key |-> key, text |-> text]

\* STD_HEAD_LINKS in order (the tailwind-config script carries
\* STD_TAILWIND_CONFIG), as clean_head_keep_title appends them
STD_HEAD_LINKS ==
  << HeadItem("link",   "preconnect:fonts.googleapis.com", <<>>),
     HeadItem("link",   "preconnect:fonts.gstatic.com", <<>>),
     HeadItem("link",   "preload:Plus+Jakarta+Sans", <<>>),
     HeadItem("link",   "stylesheet:Material+Symbols+Outlined", <<>>),
     HeadItem("script", "src:cdn.tailwindcss.com", <<>>),
     HeadItem("script", "id:tailwind-config", <<>>) >>

\* the <style> element holding STD_ICON_STYLE
STD_ICON_STYLE == HeadItem("style", "material-symbols-baseline", <<>>)

\* STD_BACK_HEADER_HTML parsed: the header with its icon span and its h1
\* (the wrapping div and anchor carry no text and are left out)
STD_BACK_HEADER_HTML ==
  El("header", <<s_sticky, s_top_0>>, <<>>,
     << Leaf("span", <<s_material_symbols_outlined>>, s_arrow_back),
        Leaf("h1", <<>>, <<"P","a","g","e"," ","t","i","t","l","e">>) >>,
     "", FALSE)

\* the class list of every entry of STD_BOTTOM_NAV_HTML (first token)
NavEntryClass == <<s_flex>>

\* STD_BOTTOM_NAV_HTML parsed: the nav and its five [data-tab] anchors
STD_BOTTOM_NAV_HTML ==
  El("nav", <<s_fixed, s_bottom_0>>, <<>>,
     << El("a", NavEntryClass, <<>>, <<>>, "home", FALSE),
        El("a", NavEntryClass, <<>>, <<>>, "search", FALSE),
        El("a", NavEntryClass, <<>>, <<>>, "saved", FALSE),
        El("a", NavEntryClass, <<>>, <<>>, "messages", FALSE),
        El("a", NavEntryClass, <<>>, <<>>, "profile", FALSE) >>,
     "", FALSE)

\* A parsed document (soup): whether it has an html element, a head and a
\* body, their children, and the elements that sit at the document root
\* before (pre) and after (post) the html element.
Soup(html, has_head, head, has_body, body) ==
  [html |-> html, has_head |-> has_head, head |-> head,
   has_body |-> has_body, body |-> body, pre |-> <<>>, post |-> <<>>]

\* the elements of a sequence of elements in document order, children
\* after their parent
RECURSIVE Flatten(_)
Flatten(els) ==
  IF els = <<>> THEN <<>>
  ELSE <<Head(els)>> \o Head(els).kids \o Flatten(Tail(els))

\* every element of the document, in document order (find_all(True))
AllElements(doc) == Flatten(doc.pre \o doc.body \o doc.post)

\* Tag.string: the single string of an element, through a single child
ElString(el) ==
  IF el.kids = <<>> THEN el.text
  ELSE IF Len(el.kids) = 1 THEN el.kids[1].text
  ELSE <<>>

\* the strings below an element, in order (empty strings are no nodes)
ElStrings(el) ==
  LET own == IF el.kids = <<>> THEN <<el.text>>
             ELSE [i \in 1..Len(el.kids) |-> el.kids[i].text]
  IN  SelectSeq(own, LAMBDA t : t # <<>>)

\* Tag.get_text(separator=" ")
GetTextSep(el) == StrJoin(ElStrings(el), <<" ">>)

\* Tag.get_text(strip=True)
GetTextStrip(el) ==
  LET parts == ElStrings(el)
      stripped == [i \in 1..Len(parts) |-> StrStrip(parts[i])]
  IN  StrJoin(SelectSeq(stripped, LAMBDA t : t # <<>>), <<>>)

(* --------------------------- rewrite rules ----------------------------- *)
\* head.title: the first title element of the head, if any
HeadTitles(head) == SelectSeq(head, LAMBDA h : h.tag = "title")

\* clean_head_keep_title without "Wipe head children": the title and the
\* standard block are appended to what the head already held
clean_head_keep_title_merge(doc) ==
  LET head == IF doc.has_head THEN doc.head ELSE <<>>
      titles == HeadTitles(head)
      title_text == IF titles # <<>> /\ titles[1].text # <<>>
                      THEN StrStrip(titles[1].text) ELSE <<>>
      title_el == HeadItem("title", "", IF title_text # <<>> THEN title_text ELSE s_App)
  IN  [doc EXCEPT !.has_head = TRUE,
                  !.head = head \o <<title_el>> \o STD_HEAD_LINKS \o <<STD_ICON_STYLE>>]

\* clean_head_keep_title
clean_head_keep_title(doc) ==
  LET head == IF doc.has_head THEN doc.head ELSE <<>>
      titles == HeadTitles(head)
      title_text == IF titles # <<>> /\ titles[1].text # <<>>
                      THEN StrStrip(titles[1].text) ELSE <<>>
      title_el == HeadItem("title", "", IF title_text # <<>> THEN title_text ELSE s_App)
  IN  [doc EXCEPT !.has_head = TRUE,
                   !.head = <<title_el>> \o STD_HEAD_LINKS \o <<STD_ICON_STYLE>>]

\* " ".join(nav.get("class", []))
ClassString(el) == StrJoin(el.class, <<" ">>)

\* the heuristic with "and" for "or": all three tokens are required
IsExistingBottomNavAllTokens(el) ==
  /\ el.tag = "nav"
  /\ StrContains(ClassString(el), s_bottom)
  /\ StrContains(ClassString(el), s_fixed)
  /\ StrContains(ClassString(el), s_sticky)

IsExistingBottomNav(el) ==
  /\ el.tag = "nav"
  /\ \/ StrContains(ClassString(el), s_bottom)
     \/ StrContains(ClassString(el), s_fixed)
     \/ StrContains(ClassString(el), s_sticky)

\* nav.extract() for every matching nav, at either level of the tree
ExtractBottomNavs(els) ==
  LET kept == SelectSeq(els, LAMBDA e : ~IsExistingBottomNav(e))
  IN  [i \in 1..Len(kept) |->
         [kept[i] EXCEPT !.kids =
            SelectSeq(kept[i].kids, LAMBDA k : ~IsExistingBottomNav(k))]]

\* remove_existing_bottom_nav
remove_existing_bottom_nav(doc) ==
  [doc EXCEPT !.pre = ExtractBottomNavs(doc.pre),
              !.body = ExtractBottomNavs(doc.body),
              !.post = ExtractBottomNavs(doc.post)]

\* the "Mark active" loop of insert_bottom_nav, for one [data-tab] anchor
MarkActive(a, active) ==
  IF a.tab = active
    THEN [a EXCEPT !.current = TRUE, !.class = a.class \o <<s_text_primary>>]
    ELSE a

\* body.append(el) with body = soup.body or soup
BodyAppend(doc, el) ==
  IF doc.has_body THEN [doc EXCEPT !.body = doc.body \o <<el>>]
  ELSE [doc EXCEPT !.post = doc.post \o <<el>>]

\* body.insert(0, el) with body = soup.body or soup
BodyInsertFirst(doc, el) ==
  IF doc.has_body THEN [doc EXCEPT !.body = <<el>> \o doc.body]
  ELSE [doc EXCEPT !.pre = <<el>> \o doc.pre]

\* insert_bottom_nav
insert_bottom_nav(doc, active) ==
  LET new_nav ==
        [STD_BOTTOM_NAV_HTML EXCEPT !.kids =
           [i \in 1..Len(STD_BOTTOM_NAV_HTML.kids) |->
              MarkActive(STD_BOTTOM_NAV_HTML.kids[i], active)]]
  IN  BodyAppend(doc, new_nav)

\* the test of remove_back_headers on one header
HasBackIconText(header) ==
  LET text == StrLower(GetTextSep(header))
  IN  \E k \in BACK_ICON_NAMES : StrContains(text, StrReplace(k, "_", <<>>))

IsBackHeaderToRemove(el) == el.tag = "header" /\ HasBackIconText(el)

\* header.extract() for every matching header, at either level of the tree
ExtractBackHeaders(els) ==
  LET kept == SelectSeq(els, LAMBDA e : ~IsBackHeaderToRemove(e))
  IN  [i \in 1..Len(kept) |->
         [kept[i] EXCEPT !.kids =
            SelectSeq(kept[i].kids, LAMBDA k : ~IsBackHeaderToRemove(k))]]

\* remove_back_headers
remove_back_headers(doc) ==
  [doc EXCEPT !.pre = ExtractBackHeaders(doc.pre),
              !.body = ExtractBackHeaders(doc.body),
              !.post = ExtractBackHeaders(doc.post)]

\* insert_back_header
insert_back_header(doc, ttl) ==
  LET header ==
        [STD_BACK_HEADER_HTML EXCEPT !.kids[2].text =
           IF ttl # <<>> THEN ttl ELSE s_Back]
  IN  BodyInsertFirst(doc, header)

\* soup.select(".material-icons") and the class rewrite of its loop body
LegacyClassFix(el) ==
  IF \E i \in DOMAIN el.class : el.class[i] = s_material_icons
    THEN [el EXCEPT !.class =
            SelectSeq(el.class, LAMBDA c : c # s_material_icons)
              \o <<s_material_symbols_outlined>>]
    ELSE el

\* the class_ callable: lambda x: x and "material-symbols" in " ".join(x).
\* find_all hands a callable each value of the class attribute, and then
\* the values joined by a space; each is a str, so " ".join(x) joins the
\* characters of x.
ClassLambda(x) == x # <<>> /\ StrContains(StrJoinChars(x), s_material_symbols)

ClassValues(el) ==
  IF el.class = <<>> THEN {}
  ELSE {el.class[i] : i \in DOMAIN el.class} \cup {ClassString(el)}

\* find_all("span", class_=<the callable>)
IsSymbolSpan(el) == el.tag = "span" /\ \E x \in ClassValues(el) : ClassLambda(x)

\* el.string = value
SetString(el, value) == [el EXCEPT !.text = value, !.kids = <<>>]

\* loop body of "Normalize back arrow glyphs"
BackGlyphFix(el) ==
  LET glyph == StrReplace(StrLower(StrStrip(ElString(el))), " ", <<>>)
  IN  IF IsSymbolSpan(el) /\ glyph \in BACK_ICON_NAMES
        THEN SetString(el, s_arrow_back) ELSE el

\* loop body of "Normalize messages icon"
MsgGlyphFix(el) ==
  LET glyph == StrLower(StrStrip(ElString(el)))
  IN  IF IsSymbolSpan(el) /\ glyph \in MSG_ICON_NAMES
        THEN SetString(el, s_chat) ELSE el

\* the loop body of one of the three for loops of normalize_icons
IconFix(loop, el) ==
  CASE loop = "class" -> LegacyClassFix(el)
    [] loop = "back"  -> BackGlyphFix(el)
    [] loop = "msg"   -> MsgGlyphFix(el)

\* one for loop over a sequence of elements: the body is applied to each
\* element, and to its children unless it replaced them (setting
\* Tag.string drops the children)
IconLoopOver(loop, els) ==
  [i \in 1..Len(els) |->
     LET el == els[i]
         e2 == IconFix(loop, el)
     IN  IF e2.kids # el.kids THEN e2
         ELSE [e2 EXCEPT !.kids =
                 [j \in 1..Len(el.kids) |-> IconFix(loop, el.kids[j])]]]

\* one for loop of normalize_icons over the whole document
IconLoop(loop, doc) ==
  [doc EXCEPT !.pre = IconLoopOver(loop, doc.pre),
              !.body = IconLoopOver(loop, doc.body),
              !.post = IconLoopOver(loop, doc.post)]

\* normalize_icons
normalize_icons(doc) == IconLoop("msg", IconLoop("back", IconLoop("class", doc)))

\* find_page_title
find_page_title(doc, name) ==
  LET h1s == SelectSeq(AllElements(doc), LAMBDA e : e.tag = "h1")
  IN  IF h1s # <<>> /\ GetTextStrip(h1s[1]) # <<>>
        THEN GetTextStrip(h1s[1])
        ELSE StrTitle(StrReplace(PathStem(name), "_", <<" ">>))

\* "Ensure html/body exist" of process_file
EnsureHtmlBody(doc) ==
  IF ~doc.html THEN [doc EXCEPT !.html = TRUE, !.has_body = TRUE] ELSE doc

(* ------------------------- input documents ----------------------------- *)
\* body children of the input pages
BodyElements ==
  { \* the back header a previous run inserted
    [STD_BACK_HEADER_HTML EXCEPT !.kids[2].text = s_Welcome],
    \* a page's own header with an underscore-free back glyph
    El("header", <<>>, <<>>,
       << Leaf("span", <<s_material_icons>>, s_chevronleft),
          Leaf("h1", <<>>, s_Foo) >>, "", FALSE),
    \* the bottom navigation a previous run appended to home.html
    insert_bottom_nav(Soup(TRUE, TRUE, <<>>, TRUE, <<>>), "home").body[1],
    \* a navigation that is no bottom navigation
    El("nav", <<s_menu>>, s_home, <<>>, "", FALSE),
    Leaf("h1", <<>>, s_Welcome),
    Leaf("i", <<s_material_icons>>, s_Chevron_Left_sp),
    Leaf("span", <<s_material_symbols_outlined>>, s_sp_Mail) }

Bodies == UNION { [1..n -> BodyElements] : n \in 0..MaxBody }

\* head children of the input pages
Heads ==
  { <<>>,
    << HeadItem("meta", "viewport", <<>>) >>,
    << HeadItem("meta", "viewport", <<>>), HeadItem("title", "", s_Foo) >>,
    << HeadItem("title", "", s_blank), HeadItem("link", "stylesheet:site.css", <<>>) >> }

\* what the parser builds: nothing for an empty file, a document without
\* a body when the file has no body content, else head (if any) and body
InputSoups ==
  { Soup(FALSE, FALSE, <<>>, FALSE, <<>>) }
  \cup { Soup(TRUE, TRUE, h, FALSE, <<>>) : h \in Heads }
  \cup { Soup(TRUE, hh, IF hh THEN h ELSE <<>>, TRUE, b) :
           hh \in BOOLEAN, h \in Heads, b \in Bodies }

FileNames == { s_home_html, s_map_html, s_listing_detail_html }

(* ------------------------- process_file steps -------------------------- *)
\* process_file with the title resolved before the head is rewritten
NextStepTitleFirst(step, top) ==
  CASE step = "parse"                      -> "find_page_title"
    [] step = "find_page_title"            -> "clean_head_keep_title"
    [] step = "clean_head_keep_title"      -> "normalize_icons"
    [] step = "normalize_icons"            -> "remove_back_headers"
    [] step = "remove_back_headers"        ->
         IF top THEN "remove_existing_bottom_nav" ELSE "insert_back_header"
    [] step = "insert_back_header"         -> "remove_existing_bottom_nav"
    [] step = "remove_existing_bottom_nav" ->
         IF top THEN "insert_bottom_nav" ELSE "save"
    [] step = "insert_bottom_nav"          -> "save"
    [] step = "save"                       -> "done"

\* the statement that follows each statement of process_file
NextStep(step, top) ==
  CASE step = "parse"                      -> "clean_head_keep_title"
    [] step = "clean_head_keep_title"      -> "normalize_icons"
    [] step = "normalize_icons"            -> "find_page_title"
    [] step = "find_page_title"            -> "remove_back_headers"
    [] step = "remove_back_headers"        ->
         IF top THEN "remove_existing_bottom_nav" ELSE "insert_back_header"
    [] step = "insert_back_header"         -> "remove_existing_bottom_nav"
    [] step = "remove_existing_bottom_nav" ->
         IF top THEN "insert_bottom_nav" ELSE "save"
    [] step = "insert_bottom_nav"          -> "save"
    [] step = "save"                       -> "done"

\* process_file is about to read one page; main is not modelled here
Init ==
  /\ file_name \in FileNames
  /\ soup \in InputSoups
  /\ pc = "parse"
  /\ title = <<>>
  /\ is_top = FALSE
  /\ log = <<>>
  /\ outs = <<>>
  /\ orig = soup
  /\ disk = <<>>
  /\ bak = <<>>
  /\ idx = 0
  /\ mpc = "idle"
  /\ report = <<>>
  /\ attempts = <<>>
  /\ crashed = FALSE

\* read_text, BeautifulSoup(html, "lxml") and "Ensure html/body exist"
Parse ==
  /\ pc = "parse"
  /\ soup' = EnsureHtmlBody(soup)
  /\ pc' = NextStep("parse", is_top)
  /\ UNCHANGED <<file_name, title, is_top, log, outs, orig>>
  /\ UNCHANGED mvars

CleanHead ==
  /\ pc = "clean_head_keep_title"
  /\ soup' = clean_head_keep_title(soup)
  /\ pc' = NextStep(pc, is_top)
  /\ log' = Append(log, pc)
  /\ UNCHANGED <<file_name, title, is_top, outs, orig>>
  /\ UNCHANGED mvars

NormalizeIcons ==
  /\ pc = "normalize_icons"
  /\ soup' = normalize_icons(soup)
  /\ pc' = NextStep(pc, is_top)
  /\ log' = Append(log, pc)
  /\ UNCHANGED <<file_name, title, is_top, outs, orig>>
  /\ UNCHANGED mvars

\* is_top = path.name in TOP_LEVEL; title = find_page_title(soup, path.name)
FindPageTitle ==
  /\ pc = "find_page_title"
  /\ is_top' = InTopLevel(file_name)
  /\ title' = find_page_title(soup, file_name)
  /\ pc' = NextStep(pc, is_top')
  /\ log' = Append(log, pc)
  /\ UNCHANGED <<file_name, soup, outs, orig>>
  /\ UNCHANGED mvars

RemoveBackHeaders ==
  /\ pc = "remove_back_headers"
  /\ soup' = remove_back_headers(soup)
  /\ pc' = NextStep(pc, is_top)
  /\ log' = Append(log, pc)
  /\ UNCHANGED <<file_name, title, is_top, outs, orig>>
  /\ UNCHANGED mvars

InsertBackHeader ==
  /\ pc = "insert_back_header"
  /\ soup' = insert_back_header(soup, title)
  /\ pc' = NextStep(pc, is_top)
  /\ log' = Append(log, pc)
  /\ UNCHANGED <<file_name, title, is_top, outs, orig>>
  /\ UNCHANGED mvars

RemoveExistingBottomNav ==
  /\ pc = "remove_existing_bottom_nav"
  /\ soup' = remove_existing_bottom_nav(soup)
  /\ pc' = NextStep(pc, is_top)
  /\ log' = Append(log, pc)
  /\ UNCHANGED <<file_name, title, is_top, outs, orig>>
  /\ UNCHANGED mvars

\* active = TOP_LEVEL[path.name]; insert_bottom_nav(soup, active)
InsertBottomNav ==
  /\ pc = "insert_bottom_nav"
  /\ soup' = insert_bottom_nav(soup, TopLevelTab(file_name))
  /\ pc' = NextStep(pc, is_top)
  /\ log' = Append(log, pc)
  /\ UNCHANGED <<file_name, title, is_top, outs, orig>>
  /\ UNCHANGED mvars

\* path.replace(backup); path.write_text(str(soup))
Save ==
  /\ pc = "save"
  /\ outs' = Append(outs, soup)
  /\ pc' = NextStep(pc, is_top)
  /\ UNCHANGED <<file_name, soup, title, is_top, log, orig>>
  /\ UNCHANGED mvars

\* The tool is run again over the file it wrote. The parser rebuilds the
\* tree the serializer wrote; a serialization with elements outside the
\* html element is left to the parser's recovery and is not run again here.
RunAgain ==
  /\ pc = "done"
  /\ Len(outs) < MaxRuns
  /\ soup.pre = <<>> /\ soup.post = <<>>
  /\ pc' = "parse"
  /\ title' = <<>>
  /\ is_top' = FALSE
  /\ log' = <<>>
  /\ orig' = soup
  /\ UNCHANGED <<file_name, soup, outs>>
  /\ UNCHANGED mvars

Next ==
  \/ Parse
  \/ CleanHead
  \/ NormalizeIcons
  \/ FindPageTitle
  \/ RemoveBackHeaders
  \/ InsertBackHeader
  \/ RemoveExistingBottomNav
  \/ InsertBottomNav
  \/ Save
  \/ RunAgain

(* ------------------------------- main ---------------------------------- *)
\* htmls: the discovered .html files, by position
Files == 1..MaxFiles

\* the two file operations the other way round: write, then rename
SaveStepsWriteFirst == <<"write", "rename">>

\* "Save backup and write": the two file operations of process_file, in
\* the order the code performs them
SaveSteps == <<"rename", "write">>

FirstSaveStep == SaveSteps[1]

AfterSaveStep(step) ==
  IF SaveSteps[1] = step THEN SaveSteps[2] ELSE "returned"

\* no try/except around process_file: the exception ends main
RaiseTargetPropagates == "end"

\* where control goes when process_file raises: the except clause of main
RaiseTarget == "except"

\* main found the files, each with or without a backup of an earlier
\* run; the rewrite of a page is not modelled here
InitMain ==
  /\ disk = [f \in Files |-> "pre"]
  /\ bak \in [Files -> {"absent", "stale"}]
  /\ idx = 1
  /\ mpc = "call"
  /\ report = <<>>
  /\ attempts = [f \in Files |-> 0]
  /\ crashed = FALSE
  /\ file_name = <<>>
  /\ soup = Soup(FALSE, FALSE, <<>>, FALSE, <<>>)
  /\ pc = "idle"
  /\ title = <<>>
  /\ is_top = FALSE
  /\ log = <<>>
  /\ outs = <<>>
  /\ orig = soup

\* the for loop moves to the next file, or main returns
Advance ==
  /\ idx' = idx + 1
  /\ mpc' = IF idx + 1 > MaxFiles THEN "end" ELSE "call"

\* process_file(p) up to "Save backup and write": read, parse, rewrite.
\* Any of it may raise (an unreadable path, a failing rule).
CallProcessFile ==
  /\ ~crashed /\ mpc = "call"
  /\ attempts' = [attempts EXCEPT ![idx] = @ + 1]
  /\ \/ mpc' = FirstSaveStep
     \/ mpc' = RaiseTarget
  /\ UNCHANGED <<disk, bak, idx, report, crashed>>
  /\ UNCHANGED pvars

\* path.replace(backup): the original moves to the backup path, replacing
\* what was there; or the call raises and nothing moves
Rename ==
  /\ ~crashed /\ mpc = "rename"
  /\ \/ /\ bak' = [bak EXCEPT ![idx] = disk[idx]]
        /\ disk' = [disk EXCEPT ![idx] = "absent"]
        /\ mpc' = AfterSaveStep("rename")
     \/ /\ mpc' = RaiseTarget
        /\ UNCHANGED <<disk, bak>>
  /\ UNCHANGED <<idx, report, attempts, crashed>>
  /\ UNCHANGED pvars

\* path.write_text(...): the file is created or truncated at the original
\* path; or opening it raises
WriteOpen ==
  /\ ~crashed /\ mpc = "write"
  /\ \/ /\ disk' = [disk EXCEPT ![idx] = "partial"]
        /\ mpc' = "writing"
     \/ /\ mpc' = RaiseTarget
        /\ UNCHANGED disk
  /\ UNCHANGED <<bak, idx, report, attempts, crashed>>
  /\ UNCHANGED pvars

\* the content is written out in full; or the write raises part-way
WriteFinish ==
  /\ ~crashed /\ mpc = "writing"
  /\ \/ /\ disk' = [disk EXCEPT ![idx] = "new"]
        /\ mpc' = AfterSaveStep("write")
     \/ /\ mpc' = RaiseTarget
        /\ UNCHANGED disk
  /\ UNCHANGED <<bak, idx, report, attempts, crashed>>
  /\ UNCHANGED pvars

\* print(f"Updated: {p}")
ReportUpdated ==
  /\ ~crashed /\ mpc = "returned"
  /\ report' = Append(report, <<idx, "Updated">>)
  /\ Advance
  /\ UNCHANGED <<disk, bak, attempts, crashed>>
  /\ UNCHANGED pvars

\* except Exception as e: print(f"[ERROR] {p}: {e}")
ReportError ==
  /\ ~crashed /\ mpc = "except"
  /\ report' = Append(report, <<idx, "ERROR">>)
  /\ Advance
  /\ UNCHANGED <<disk, bak, attempts, crashed>>
  /\ UNCHANGED pvars

\* the process is killed (power loss, SIGKILL) between two steps
Crash ==
  /\ ~crashed /\ mpc # "end"
  /\ crashed' = TRUE
  /\ UNCHANGED <<disk, bak, idx, mpc, report, attempts>>
  /\ UNCHANGED pvars

NextMain ==
  \/ CallProcessFile
  \/ Rename
  \/ WriteOpen
  \/ WriteFinish
  \/ ReportUpdated
  \/ ReportError
  \/ Crash

(* --------------------------- specifications ---------------------------- *)
\* process_file over one page, step by step, run up to MaxRuns times
Spec == Init /\ [][Next]_vars

\* main over the discovered files and their backup and original paths
SpecMain == InitMain /\ [][NextMain]_vars

(* ------------------------ vocabulary of the claims --------------------- *)
\* the rewrite of the current run is complete
Transformed == pc = "done"

\* an icon element: it carries the legacy class or a material-symbols class
IsIconElement(el) ==
  \E i \in DOMAIN el.class :
    el.class[i] = s_material_icons \/ StrContains(el.class[i], s_material_symbols)

\* glyph text, case-folded and whitespace-stripped
GlyphName(el) == StrLower(StrStrip(ElString(el)))

\* a back header: a header holding an icon with a back-arrow glyph
IsBackHeader(el) ==
  /\ el.tag = "header"
  /\ \E i \in DOMAIN el.kids :
       IsIconElement(el.kids[i]) /\ GlyphName(el.kids[i]) \in BACK_ICON_NAMES

\* the Canonical Bottom Navigation, whatever entry is marked
IsCanonicalBottomNav(el) ==
  /\ el.tag = "nav"
  /\ el.class = STD_BOTTOM_NAV_HTML.class
  /\ [i \in DOMAIN el.kids |-> el.kids[i].tab]
       = [i \in DOMAIN STD_BOTTOM_NAV_HTML.kids |-> STD_BOTTOM_NAV_HTML.kids[i].tab]

BackHeaderCount(doc) == Len(SelectSeq(AllElements(doc), IsBackHeader))
BottomNavCount(doc) == Len(SelectSeq(AllElements(doc), IsCanonicalBottomNav))

\* an entry carries the active marker
IsActiveEntry(a) ==
  a.current /\ \E i \in DOMAIN a.class : a.class[i] = s_text_primary

\* the tabs marked active in the canonical bottom navigations of a document
ActiveTabs(doc) ==
  LET navs == SelectSeq(AllElements(doc), IsCanonicalBottomNav)
  IN  { navs[i].kids[j].tab :
          <<i, j>> \in { <<i, j>> \in (DOMAIN navs) \X (1..5) :
                           IsActiveEntry(navs[i].kids[j]) } }

IconGlyphs(doc) ==
  LET icons == SelectSeq(AllElements(doc), IsIconElement)
  IN  [i \in DOMAIN icons |-> ElString(icons[i])]

BackHeaderFirstInBody(doc) ==
  doc.has_body /\ doc.body # <<>> /\ IsBackHeader(doc.body[1])

BottomNavLastInBody(doc) ==
  doc.has_body /\ doc.body # <<>> /\ IsCanonicalBottomNav(doc.body[Len(doc.body)])

\* what a run's result is compared on
Structure(doc) ==
  [ head |-> doc.head,
    back_headers |-> BackHeaderCount(doc),
    bottom_navs |-> BottomNavCount(doc),
    active |-> ActiveTabs(doc),
    icons |-> IconGlyphs(doc) ]

(* ------------------------------- C1 ------------------------------------ *)
\* C1: running the pipeline on its own output gives a structurally
\* identical document (head, number of back headers, number of bottom
\* navigations and active entry, icon glyph names); in particular a second
\* run over a detail page does not leave two back headers.
C1_Idempotent ==
  \A i \in DOMAIN outs :
    i > 1 =>
      /\ Structure(outs[i]) = Structure(outs[i - 1])
      /\ ~InTopLevel(file_name) => BackHeaderCount(outs[i]) < 2

(* ------------------------------- C2 ------------------------------------ *)
\* C2: after the transformation exactly one of "a back header is the first
\* element of the body" and "a bottom navigation is the last element of
\* the body" holds: the back header for a detail page, the bottom
\* navigation for a top-level page.
C2_ClassificationExclusive ==
  Transformed =>
    /\ BackHeaderFirstInBody(soup) # BottomNavLastInBody(soup)
    /\ BottomNavLastInBody(soup) = InTopLevel(file_name)
    /\ InTopLevel(file_name) => BackHeaderCount(soup) = 0
    /\ ~InTopLevel(file_name) => BottomNavCount(soup) = 0

(* ------------------------------- C3 ------------------------------------ *)
\* the navigation insert_bottom_nav appended
AppendedNav(doc) ==
  IF doc.has_body THEN doc.body[Len(doc.body)] ELSE doc.post[Len(doc.post)]

\* C3: for every key of TOP_LEVEL the appended bottom navigation has
\* exactly one entry with the active marker, its data-tab is
\* TOP_LEVEL[file name], and the other four entries are as in the template.
C3_ActiveTabUnique ==
  (Transformed /\ InTopLevel(file_name)) =>
    LET nav == AppendedNav(soup)
        active == {i \in DOMAIN nav.kids : IsActiveEntry(nav.kids[i])}
    IN  /\ Cardinality(active) = 1
        /\ \A i \in DOMAIN nav.kids :
             IF i \in active
               THEN nav.kids[i].tab = TopLevelTab(file_name)
               ELSE nav.kids[i] = STD_BOTTOM_NAV_HTML.kids[i]

(* ------------------------------- C4 ------------------------------------ *)
\* C4: after the transformation no icon element, whatever its tag, has a
\* glyph that is a back-arrow alias other than arrow_back or a messaging
\* alias other than chat.
C4_IconAliasClosure ==
  Transformed =>
    \A i \in DOMAIN AllElements(soup) :
      LET el == AllElements(soup)[i]
      IN  IsIconElement(el) =>
            GlyphName(el) \notin ((BACK_ICON_NAMES \cup MSG_ICON_NAMES)
                                    \ {s_arrow_back, s_chat})

(* ------------------------------- C5 ------------------------------------ *)
\* the head is a title followed by the Canonical Head Block, nothing else
HeadIsCanonical(doc) ==
  /\ doc.has_head
  /\ Len(doc.head) = Len(STD_HEAD_LINKS) + 2
  /\ doc.head[1].tag = "title"
  /\ SubSeq(doc.head, 2, Len(doc.head)) = STD_HEAD_LINKS \o <<STD_ICON_STYLE>>

\* C5 (as claimed): after the transformation the head is a title followed
\* by the Canonical Head Block and the title's text is the page title the
\* Title Resolver returned.
C5_HeadTitleIsResolvedTitle ==
  Transformed => HeadIsCanonical(soup) /\ soup.head[1].text = title

\* the title text the input document declared: the stripped text of the
\* first title of its head, if it has one that is not blank
DeclaredTitle(doc) ==
  LET stripped == { <<i, StrStrip(doc.head[i].text)>> : i \in DOMAIN doc.head }
      first == { p \in stripped :
                   /\ doc.head[p[1]].tag = "title"
                   /\ \A j \in 1..(p[1] - 1) : doc.head[j].tag # "title" }
  IN  IF doc.has_head /\ first # {} /\ (CHOOSE p \in first : TRUE)[2] # <<>>
        THEN (CHOOSE p \in first : TRUE)[2]
        ELSE <<>>

\* C5 (amended): once the head is rewritten it is a title followed by the
\* Canonical Head Block with nothing else kept, and the title's text is
\* the stripped title text the input head declared, or "App" when it
\* declared none; it is not the title the Title Resolver returns.
C5_HeadKeepsDeclaredTitle ==
  (pc \notin {"parse", "clean_head_keep_title"}) =>
    /\ HeadIsCanonical(soup)
    /\ soup.head[1].text =
         IF DeclaredTitle(orig) # <<>> THEN DeclaredTitle(orig) ELSE s_App

\* a page whose head declared "Foo" and whose first h1 reads otherwise
C5_Witness ==
  /\ Transformed
  /\ DeclaredTitle(orig) = s_Foo
  /\ Len(orig.head) > 1
  /\ soup.head[1].text = s_Foo
  /\ title = s_Welcome

BottomNavLastInBodyOrRoot(doc) ==
  IF doc.has_body THEN BottomNavLastInBody(doc)
  ELSE doc.post # <<>> /\ IsCanonicalBottomNav(doc.post[Len(doc.post)])

AfterRemoveBackHeaders ==
  log # <<>> /\ log[Len(log)] = "remove_back_headers"

\* a header whose flattened text, underscores stripped and case-folded,
\* contains a back-arrow alias
TextNamesBackIcon(el) ==
  /\ el.tag = "header"
  /\ \E k \in BACK_ICON_NAMES :
       StrContains(StrReplace(StrLower(GetTextSep(el)), "_", <<>>),
                   StrReplace(k, "_", <<>>))

\* C9: remove_back_headers removes every header whose flattened text,
\* underscores stripped and case-folded, contains a back-arrow alias, on
\* top-level and detail pages alike; a header whose text contains
\* arrow_back is among them.
C9_BackHeadersRemoved ==
  AfterRemoveBackHeaders =>
    \A i \in DOMAIN AllElements(soup) : ~TextNamesBackIcon(AllElements(soup)[i])

(* ------------------------------- C10 ----------------------------------- *)
IsPrefix(a, b) == Len(a) <= Len(b) /\ SubSeq(b, 1, Len(a)) = a

HeaderAndNavOrder(top) ==
  <<"remove_back_headers">>
    \o (IF top THEN <<>> ELSE <<"insert_back_header">>)
    \o <<"remove_existing_bottom_nav">>
    \o (IF top THEN <<"insert_bottom_nav">> ELSE <<>>)

\* C10 (as claimed): the rules run once each in the order Title Resolver,
\* Head Normalizer, Icon Normalizer, header step, navigation step.
C10_TitleResolvedFirst ==
  LET order == <<"find_page_title", "clean_head_keep_title", "normalize_icons">>
                 \o HeaderAndNavOrder(InTopLevel(file_name))
  IN  /\ IsPrefix(log, order)
      /\ Transformed => log = order

\* C10 (amended): the rules run once each in the order Head Normalizer,
\* Icon Normalizer, Title Resolver, header step (remove_back_headers, then
\* insert_back_header for a detail page), navigation step
\* (remove_existing_bottom_nav, then insert_bottom_nav for a top-level
\* page); the title is resolved after the head is rewritten and the icons
\* are normalized.
C10_TitleResolvedAfterIcons ==
  LET order == <<"clean_head_keep_title", "normalize_icons", "find_page_title">>
                 \o HeaderAndNavOrder(InTopLevel(file_name))
  IN  /\ IsPrefix(log, order)
      /\ Transformed => log = order

\* a detail page went through all six of its rules
C10_Witness ==
  /\ Transformed
  /\ ~InTopLevel(file_name)
  /\ log[1] = "clean_head_keep_title"
  /\ log[3] = "find_page_title"
  /\ log[5] = "insert_back_header"
  /\ Len(log) = 6

(* ------------------------------- C7 ------------------------------------ *)
\* C7: the rename to the backup path comes before any write to the
\* original path: in every state, a crash included, an original path that
\* holds partly written or transformed content has the complete pre-run
\* content at its backup path, and between the rename and the write the
\* pre-run content is at the backup path only.
C7_BackupBeforeWrite ==
  \A f \in Files :
    /\ disk[f] \in {"partial", "new"} => bak[f] = "pre"
    /\ (idx = f /\ mpc = "write") => (disk[f] = "absent" /\ bak[f] = "pre")

\* killed between the rename and the write of a file whose stale backup
\* was replaced, after an earlier file's write failed part-way
C7_Witness ==
  /\ crashed
  /\ mpc = "write"
  /\ disk[idx] = "absent" /\ bak[idx] = "pre"
  /\ \E f \in Files : disk[f] = "partial" /\ bak[f] = "pre"

(* ------------------------------- C8 ------------------------------------ *)
\* the status lines printed for a file
Outcomes(f) == Cardinality({i \in DOMAIN report : report[i][1] = f})

\* C8: main calls process_file once for every discovered file whatever
\* happened to the files before it, a failure is caught for that file
\* only, every file ends with exactly one status line, and main returns
\* only after the last file.
C8_PerFileIsolation ==
  /\ \A f \in Files :
       /\ attempts[f] <= 1 /\ Outcomes(f) <= 1
       /\ f < idx => (attempts[f] = 1 /\ Outcomes(f) = 1)
       /\ f > idx => (attempts[f] = 0 /\ Outcomes(f) = 0)
  /\ mpc = "end" => \A f \in Files : attempts[f] = 1 /\ Outcomes(f) = 1

\* the first file failed and the last was still updated
C8_Witness ==
  /\ mpc = "end" /\ ~crashed
  /\ report[1] = <<1, "ERROR">>
  /\ report[Len(report)] = <<MaxFiles, "Updated">>

=============================================================================
